---- MODULE Spec2Model ----
(***************************************************************************)
(* Billing contracts for a phone line (contract.py): the abstract Contract *)
(* and its three variants MTMContract, TermContract and PrepaidContract,   *)
(* driven by new_month / bill_call / cancel_contract.                      *)
(*                                                                         *)
(* Money is kept in mills (1/1000 of a dollar) so that every rate and fee  *)
(* of the program is an integer: 0.025 -> 25, 50.00 -> 50000.              *)
(* An optional value (Python None or a value) is a sequence of length 0 or *)
(* 1.                                                                      *)
(***************************************************************************)
EXTENDS Integers, Sequences, FiniteSets

\* ---------------------------------------------------------------- constants
MTM_MONTHLY_FEE == 50000
TERM_MONTHLY_FEE == 20000
TERM_DEPOSIT == 300000
TERM_MINS == 100
MTM_MINS_COST == 50
TERM_MINS_COST == 100
PREPAID_MINS_COST == 25
\* literals of PrepaidContract.new_month: the -10 threshold and the 25 refill
PREPAID_THRESHOLD == -10000
PREPAID_REFILL == 25000

\* ------------------------------------------------------------------- bounds
MaxCycles == 2      \* new_month calls made by the driver
MaxCalls == 2       \* bill_call calls per cycle
NumYears == 2       \* years the driver's cycles range over
MaxCancels == 2     \* cancel_contract calls made in a row
FirstYear == 2023

\* ------------------------------------------------------------------- inputs
Kinds == {"MTM", "TERM", "PREPAID"}
Months == {1, 12}
Years == FirstYear .. (FirstYear + NumYears - 1)
Cycles == [month : Months, year : Years]
\* call durations in seconds: none, 1 s, 1.5 min, 101 min
Durations == {0, 1, 90, 6060}
StartDates == {[month |-> 1, year |-> FirstYear], [month |-> 12, year |-> FirstYear]}
EndDates == {[month |-> 11, year |-> FirstYear], [month |-> 12, year |-> FirstYear],
             [month |-> 1, year |-> FirstYear + 1]}
\* constructor argument of PrepaidContract, in dollars
InitBalances == {-40, -25, 10, 40}
MTMStart == [month |-> 1, year |-> FirstYear]
NoDate == [month |-> 0, year |-> 0]

None == << >>
Some(x) == << x >>
Val(o) == o[1]

VARIABLES
    kind,         \* the class of the contract instance
    start,        \* Contract.start: Some(date) or None
    bill,         \* Contract.bill: None or Some(bill record)
    end_date,     \* TermContract.end_date
    _free,        \* TermContract._free
    _curr_month,  \* TermContract._curr_month (0: attribute not set yet)
    _curr_year,   \* TermContract._curr_year  (0: attribute not set yet)
    balance,      \* PrepaidContract.balance
    ret,          \* value returned by the last operation: None or Some(amount)
    op,           \* history: the last operation and its arguments
    seen,         \* history: the cycles new_month was called for
    calls,        \* history: durations billed in the current cycle
    deposits,     \* history: how often TERM_DEPOSIT was added to a bill
    ncancel,      \* history: cancel_contract calls made in a row
    ctor_balance  \* history: the balance argument of PrepaidContract.__init__

vars == << kind, start, bill, end_date, _free, _curr_month, _curr_year,
           balance, ret, op, seen, calls, deposits, ncancel, ctor_balance >>

\* --------------------------------------------------------------------- Bill
\* A fresh bill as the driver passes it to new_month.
NewBill == [fixed |-> 0, billed |-> 0, free |-> 0, rate |-> 0, type |-> ""]

set_rates(b, plan, cost) == [b EXCEPT !.type = plan, !.rate = cost]

add_fixed_cost(b, amount) == [b EXCEPT !.fixed = @ + amount]

add_billed_minutes(b, n) == [b EXCEPT !.billed = @ + n]

add_free_minutes(b, n) == [b EXCEPT !.free = @ + n]

get_cost(b) == b.rate * b.billed + b.fixed

\* ------------------------------------------------------------------ helpers
\* ceil(call.duration / 60.0) for a non-negative duration in seconds
Ceil60_Floor(d) == d \div 60

Ceil60(d) == IF d % 60 = 0 THEN d \div 60 ELSE (d \div 60) + 1

OpRec(name, month, year, dur) ==
    [name |-> name, month |-> month, year |-> year, dur |-> dur]

\* --------------------------------------------------------------------- Init
Init ==
    /\ kind \in Kinds
    \* only TermContract reads the start date
    /\ start \in {Some(d) : d \in (IF kind = "TERM" THEN StartDates
                                                    ELSE {MTMStart})}
    /\ bill = None
    /\ IF kind = "TERM"
         THEN end_date \in EndDates /\ _free = TERM_MINS
         ELSE end_date = NoDate /\ _free = 0
    /\ _curr_month = 0
    /\ _curr_year = 0
    /\ IF kind = "PREPAID"
         THEN /\ ctor_balance \in {b * 1000 : b \in InitBalances}
              /\ balance = ctor_balance * (-1)
         ELSE ctor_balance = 0 /\ balance = 0
    /\ ret = None
    /\ op = OpRec("init", 0, 0, 0)
    /\ seen = {}
    /\ calls = << >>
    /\ deposits = 0
    /\ ncancel = 0

\* The driver calls new_month once per billing cycle.
CanStartCycle(month, year) ==
    /\ Cardinality(seen) < MaxCycles
    /\ [month |-> month, year |-> year] \notin seen

CanBillCall == bill # None /\ Len(calls) < MaxCalls

\* The history every new_month records.
NewMonthHistory(month, year) ==
    /\ ret' = None
    /\ op' = OpRec("new_month", month, year, 0)
    /\ seen' = seen \cup {[month |-> month, year |-> year]}
    /\ calls' = << >>
    /\ ncancel' = 0
    /\ UNCHANGED ctor_balance

BillCallHistory(d) ==
    /\ ret' = None
    /\ op' = OpRec("bill_call", 0, 0, d)
    /\ calls' = Append(calls, d)
    /\ ncancel' = 0
    /\ UNCHANGED << seen, deposits, ctor_balance >>

CancelHistory ==
    /\ ncancel < MaxCancels
    /\ ncancel' = ncancel + 1
    /\ op' = OpRec("cancel_contract", 0, 0, 0)
    /\ UNCHANGED << seen, calls, deposits, ctor_balance >>

\* --------------------------------------------------------------- MTMContract
MTM_new_month(month, year) ==
    /\ kind = "MTM"
    /\ CanStartCycle(month, year)
    /\ bill' = Some(set_rates(add_fixed_cost(NewBill, MTM_MONTHLY_FEE),
                              "MTM", MTM_MINS_COST))
    /\ NewMonthHistory(month, year)
    /\ UNCHANGED << kind, start, end_date, _free, _curr_month, _curr_year,
                    balance, deposits >>

\* Contract.bill_call, inherited by MTMContract
Contract_bill_call(d) ==
    /\ kind = "MTM"
    /\ CanBillCall
    /\ bill' = Some(add_billed_minutes(Val(bill), Ceil60(d)))
    /\ BillCallHistory(d)
    /\ UNCHANGED << kind, start, end_date, _free, _curr_month, _curr_year,
                    balance >>

\* Contract.cancel_contract, inherited by MTMContract
Contract_cancel_contract ==
    /\ kind = "MTM"
    /\ bill # None
    /\ start' = None
    /\ ret' = Some(get_cost(Val(bill)))
    /\ CancelHistory
    /\ UNCHANGED << kind, bill, end_date, _free, _curr_month, _curr_year,
                    balance >>

\* -------------------------------------------------------------- TermContract
IsStartCycle_MonthOnly(month, year, st) == month = st.month

\* the test that decides whether the term deposit is added
IsStartCycle(month, year, st) == month = st.month /\ year = st.year

Term_new_month(month, year) ==
    /\ kind = "TERM"
    /\ start # None
    /\ CanStartCycle(month, year)
    /\ LET dep == IsStartCycle(month, year, Val(start))
           b1 == IF dep THEN add_fixed_cost(NewBill, TERM_DEPOSIT) ELSE NewBill
           b2 == add_fixed_cost(b1, TERM_MONTHLY_FEE)
       IN /\ bill' = Some(set_rates(b2, "TERM", TERM_MINS_COST))
          /\ deposits' = IF dep THEN deposits + 1 ELSE deposits
    /\ _free' = TERM_MINS
    /\ _curr_month' = month
    /\ _curr_year' = year
    /\ NewMonthHistory(month, year)
    /\ UNCHANGED << kind, start, end_date, balance >>

Term_bill_call_NoClamp(d) ==
    /\ kind = "TERM"
    /\ CanBillCall
    /\ LET mins == Ceil60(d)
       IN /\ bill' = Some(add_free_minutes(Val(bill), mins))
          /\ _free' = _free - mins
    /\ BillCallHistory(d)
    /\ UNCHANGED << kind, start, end_date, _curr_month, _curr_year, balance >>

Term_bill_call(d) ==
    /\ kind = "TERM"
    /\ CanBillCall
    /\ LET mins == Ceil60(d)
       IN IF mins <= _free
            THEN /\ bill' = Some(add_free_minutes(Val(bill), mins))
                 /\ _free' = _free - mins
            ELSE /\ bill' = Some(add_billed_minutes(
                                   add_free_minutes(Val(bill), Ceil60(_free)),
                                   mins - _free))
                 /\ _free' = 0
    /\ BillCallHistory(d)
    /\ UNCHANGED << kind, start, end_date, _curr_month, _curr_year, balance >>

RefundEligible_SameMonth(cy, cm, end) == cy >= end.year /\ cm >= end.month

\* the test that decides whether the term deposit is refunded
RefundEligible(cy, cm, end) == cy >= end.year /\ cm > end.month

Term_cancel_contract_ClearsStart ==
    /\ kind = "TERM"
    /\ bill # None
    /\ start' = None
    /\ ret' = IF RefundEligible(_curr_year, _curr_month, end_date)
                THEN Some(get_cost(Val(bill)) - TERM_DEPOSIT)
                ELSE Some(get_cost(Val(bill)))
    /\ CancelHistory
    /\ UNCHANGED << kind, bill, end_date, _free, _curr_month, _curr_year,
                    balance >>

Term_cancel_contract ==
    /\ kind = "TERM"
    /\ bill # None
    /\ ret' = IF RefundEligible(_curr_year, _curr_month, end_date)
                THEN Some(get_cost(Val(bill)) - TERM_DEPOSIT)
                ELSE Some(get_cost(Val(bill)))
    /\ CancelHistory
    /\ UNCHANGED << kind, start, bill, end_date, _free, _curr_month,
                    _curr_year, balance >>

\* ----------------------------------------------------------- PrepaidContract
NeedsRefill_Inclusive(bal) == bal >= PREPAID_THRESHOLD

NeedsRefill(bal) == bal > PREPAID_THRESHOLD

Prepaid_new_month(month, year) ==
    /\ kind = "PREPAID"
    /\ CanStartCycle(month, year)
    /\ LET b1 == set_rates(NewBill, "PREPAID", PREPAID_MINS_COST)
           bal == IF NeedsRefill(balance) THEN balance - PREPAID_REFILL
                                         ELSE balance
       IN /\ balance' = bal
          /\ bill' = Some(add_fixed_cost(b1, bal))
    /\ NewMonthHistory(month, year)
    /\ UNCHANGED << kind, start, end_date, _free, _curr_month, _curr_year,
                    deposits >>

Prepaid_bill_call_NoSync(d) ==
    /\ kind = "PREPAID"
    /\ CanBillCall
    /\ bill' = Some(add_billed_minutes(Val(bill), Ceil60(d)))
    /\ balance' = balance
    /\ BillCallHistory(d)
    /\ UNCHANGED << kind, start, end_date, _free, _curr_month, _curr_year >>

Prepaid_bill_call(d) ==
    /\ kind = "PREPAID"
    /\ CanBillCall
    /\ LET b1 == add_billed_minutes(Val(bill), Ceil60(d))
       IN /\ bill' = Some(b1)
          /\ balance' = get_cost(b1)
    /\ BillCallHistory(d)
    /\ UNCHANGED << kind, start, end_date, _free, _curr_month, _curr_year >>

Prepaid_cancel_contract_Refunds ==
    /\ kind = "PREPAID"
    /\ bill # None
    /\ ret' = Some(balance)
    /\ CancelHistory
    /\ UNCHANGED << kind, start, bill, end_date, _free, _curr_month,
                    _curr_year, balance >>

Prepaid_cancel_contract ==
    /\ kind = "PREPAID"
    /\ bill # None
    /\ ret' = IF balance > 0 THEN Some(balance) ELSE Some(0)
    /\ CancelHistory
    /\ UNCHANGED << kind, start, bill, end_date, _free, _curr_month,
                    _curr_year, balance >>

\* --------------------------------------------------------------------- Next
Next ==
    \/ \E m \in Months, y \in Years : MTM_new_month(m, y)
    \/ \E d \in Durations : Contract_bill_call(d)
    \/ Contract_cancel_contract
    \/ \E m \in Months, y \in Years : Term_new_month(m, y)
    \/ \E d \in Durations : Term_bill_call(d)
    \/ Term_cancel_contract
    \/ \E m \in Months, y \in Years : Prepaid_new_month(m, y)
    \/ \E d \in Durations : Prepaid_bill_call(d)
    \/ Prepaid_cancel_contract

Spec == Init /\ [][Next]_vars

\* ------------------------------------------------------------------- claims
Cost == get_cost(Val(bill))

IsNewMonthStep == op'.name = "new_month" /\ seen' # seen

IsBillCallStep == op'.name = "bill_call" /\ Len(calls') = Len(calls) + 1

IsCancelStep == op'.name = "cancel_contract" /\ ncancel' = ncancel + 1

\* whole minutes of a call, written without the program's ceil
WholeMinutes(d) == (d + 59) \div 60

RECURSIVE SumMinutes(_)
SumMinutes(ds) ==
    IF ds = << >> THEN 0 ELSE WholeMinutes(Head(ds)) + SumMinutes(Tail(ds))

\* c1 is chronologically before the cycle (m2, y2)
Before(c1, m2, y2) == c1.year < y2 \/ (c1.year = y2 /\ c1.month < m2)

\* C1: a TermContract.bill_call whose whole minutes m exceed the remaining
\* free minutes F adds exactly F free minutes and m - F billed minutes to the
\* bill and zeroes the free counter.
C1_ExhaustSplitsMinutes ==
    [][(kind = "TERM" /\ IsBillCallStep /\ WholeMinutes(op'.dur) > _free)
        => /\ Val(bill').free = Val(bill).free + _free
           /\ Val(bill').billed = Val(bill).billed
                                    + (WholeMinutes(op'.dur) - _free)
           /\ _free' = 0]_vars

\* C2: over new_month calls for pairwise distinct cycles, the deposit is on a
\* cycle's bill iff the cycle is the start month and year, it is added at most
\* once, and every bill carries the 20.00 fee and the 0.10 rate.
C2_DepositOnlyInStartCycle ==
    (kind = "TERM" /\ bill # None) =>
        LET isStart == _curr_month = Val(start).month
                       /\ _curr_year = Val(start).year
            startSeen == [month |-> Val(start).month,
                          year |-> Val(start).year] \in seen
        IN /\ Val(bill).fixed = (IF isStart THEN 300000 ELSE 0) + 20000
           /\ Val(bill).rate = 100
           /\ deposits = (IF startSeen THEN 1 ELSE 0)
           /\ deposits <= 1

C2_Witness ==
    /\ kind = "TERM"
    /\ Cardinality(seen) = MaxCycles
    /\ deposits = 1
    /\ op.name = "new_month"
    /\ op.month = Val(start).month
    /\ op.year # Val(start).year
    /\ Val(bill).fixed = 20000

\* C3: TermContract.cancel_contract returns cost - 300.00 when the recorded
\* cycle's month is strictly after the end month and its year is at or after
\* the end year, and the full cost otherwise.
C3_RefundRule ==
    (kind = "TERM" /\ op.name = "cancel_contract") =>
        ret = Some(IF _curr_month > end_date.month
                      /\ _curr_year >= end_date.year
                     THEN Cost - 300000
                     ELSE Cost)

C3_Witness ==
    /\ kind = "TERM"
    /\ op.name = "cancel_contract"
    /\ _curr_month > end_date.month
    /\ _curr_year > end_date.year
    /\ ret # None
    /\ Val(ret) < 0

\* C4: _free stays within 0..100, no bill_call increases it, and every
\* new_month sets it to 100.
C4_FreeCounter ==
    [][kind = "TERM" =>
         /\ _free \in 0 .. 100
         /\ _free' \in 0 .. 100
         /\ (IsBillCallStep => _free' <= _free)
         /\ (IsNewMonthStep => _free' = 100)]_vars

C4_Witness ==
    /\ kind = "TERM"
    /\ op.name = "bill_call"
    /\ Len(calls) = 2
    /\ _free = 0
    /\ Val(bill).billed > 0

\* C5: once new_month has bound a bill, balance equals the bill's cost after
\* every operation, and the next cycle's fixed cost is the previous cycle's
\* final cost, less 25 when the refill applies.
C5_BalanceTracksBill ==
    [][kind = "PREPAID" =>
         /\ (bill' # None => balance' = get_cost(Val(bill')))
         /\ ((IsNewMonthStep /\ bill # None) =>
               Val(bill').fixed = Cost - (IF Cost > -10000 THEN 25000 ELSE 0))]_vars

C5_Witness ==
    /\ kind = "PREPAID"
    /\ Cardinality(seen) >= 2
    /\ op.name = "bill_call"
    /\ Val(bill).billed > 0
    /\ Val(bill).fixed % 1000 # 0
    /\ balance = Cost

\* C6: PrepaidContract.new_month subtracts 25 from balance exactly when the
\* balance is strictly greater than -10, puts the result on the bill as fixed
\* cost and sets the rate 0.025; the constructor stores the negated argument.
C6_RefillRule ==
    [][kind = "PREPAID" =>
         /\ (seen = {} => balance = 0 - ctor_balance)
         /\ (IsNewMonthStep =>
               /\ balance' = (IF balance > -10000 THEN balance - 25000
                                                  ELSE balance)
               /\ Val(bill').fixed = balance'
               /\ Val(bill').rate = 25)]_vars

C6_Witness ==
    /\ kind = "PREPAID"
    /\ op.name = "new_month"
    /\ ctor_balance = 10000
    /\ Cardinality(seen) = 1
    /\ balance = -10000

\* C7: PrepaidContract.cancel_contract returns balance when it is strictly
\* positive and 0 otherwise, never a negative amount.
C7_PrepaidCancel ==
    (kind = "PREPAID" /\ op.name = "cancel_contract") =>
        /\ ret = Some(IF balance > 0 THEN balance ELSE 0)
        /\ Val(ret) >= 0

C7_Witness ==
    /\ kind = "PREPAID"
    /\ op.name = "cancel_contract"
    /\ balance < 0
    /\ ret = Some(0)

\* C8: an MTM bill has fixed cost 50.00, rate 0.05, no free minutes and the
\* sum of the calls' whole minutes as billed minutes, in every cycle, and
\* cancel_contract returns 50.00 + 0.05 * that sum.
C8_MTMCycleCost ==
    (kind = "MTM" /\ bill # None) =>
        /\ Val(bill).fixed = 50000
        /\ Val(bill).rate = 50
        /\ Val(bill).free = 0
        /\ Val(bill).billed = SumMinutes(calls)
        /\ Cost = 50000 + 50 * SumMinutes(calls)
        /\ (op.name = "cancel_contract" =>
              ret = Some(50000 + 50 * SumMinutes(calls)))

C8_Witness ==
    /\ kind = "MTM"
    /\ Cardinality(seen) >= 2
    /\ calls = << 1, 90 >>
    /\ op.name = "cancel_contract"
    /\ ret = Some(50150)

\* C9: refund eligibility is monotone in time: when a cancellation is not
\* refunded, no chronologically earlier cycle would have been refunded.
C9_RefundMonotone ==
    (kind = "TERM" /\ op.name = "cancel_contract") =>
        \A c \in Cycles :
            (Before(c, _curr_month, _curr_year)
               /\ RefundEligible(c.year, c.month, end_date))
            => ret = Some(Cost - TERM_DEPOSIT)

\* C10: cancel_contract leaves the bill unchanged; the Term and Prepaid
\* versions change no contract field, the inherited one only clears start;
\* a second cancel_contract in a row returns the same amount.
C10_CancelFrame ==
    [][IsCancelStep =>
         /\ bill' = bill
         /\ UNCHANGED << end_date, _free, _curr_month, _curr_year, balance >>
         /\ (kind \in {"TERM", "PREPAID"} => start' = start)
         /\ (kind = "MTM" => start' = None)
         /\ (op.name = "cancel_contract" => ret' = ret)]_vars

C10_Witness ==
    /\ kind = "TERM"
    /\ ncancel = 2
    /\ start # None
    /\ ret # None

====
